---- MODULE Spec2Model ----
(***************************************************************************)
(* Model of src/main.py: the Cantina payout calculator.                    *)
(*                                                                         *)
(* Amounts are exact: money is an integer number of cents, points are an   *)
(* integer number of 1/PointsUnit points, calculate_scaled_points returns  *)
(* an exact fraction.  Display-only data (titles, usernames) is left out.  *)
(***************************************************************************)
EXTENDS Integers, Sequences, FiniteSets

VARIABLES REPO_ID, COOKIE, PRIZE_POT, pc, valid_config, api_data, calls,
          confirmed_originals, all_valid_submissions, user_points,
          processed_vulnerabilities, total_points_awarded, payout_data,
          total_payout_calculated, scaled_call

vars == <<REPO_ID, COOKIE, PRIZE_POT, pc, valid_config, api_data, calls,
          confirmed_originals, all_valid_submissions, user_points,
          processed_vulnerabilities, total_points_awarded, payout_data,
          total_payout_calculated, scaled_call>>

(* ------------------------------ bounds --------------------------------- *)

\* Longest 'findings' list the provider returns.
MaxLen == 2
\* Small prize pots, in cents: -MaxPool, 0, 1..MaxPool.
MaxPool == 2
\* One large prize pot, in cents.
BigPool == 40000
\* Arguments of calculate_scaled_points when it is exercised on its own.
MaxBase == 12
MaxN == 3

(* ------------------------------ helpers -------------------------------- *)

EmptyMap == [x \in {} |-> 0]

Put(m, k, v) == [x \in (DOMAIN m) \cup {k} |-> IF x = k THEN v ELSE m[x]]

RECURSIVE Pow(_, _)
Pow(b, e) == IF e <= 0 THEN 1 ELSE b * Pow(b, e - 1)

RECURSIVE Fact(_)
Fact(n) == IF n <= 1 THEN 1 ELSE n * Fact(n - 1)

RECURSIVE SumOver(_, _)
\* Sum of f[x] over x in S.
SumOver(S, f) ==
  IF S = {} THEN 0
  ELSE LET x == CHOOSE y \in S : TRUE IN f[x] + SumOver(S \ {x}, f)

Abs(x) == IF x < 0 THEN -x ELSE x

Max(a, b) == IF a >= b THEN a ELSE b

RemoveAt(s, i) == [k \in 1..(Len(s) - 1) |-> IF k < i THEN s[k] ELSE s[k + 1]]

Reverse(s) == [k \in 1..Len(s) |-> s[Len(s) + 1 - k]]

(* --------------------------- configuration ----------------------------- *)

\* REPO_ID, by the two tests line 299 makes of it.
RepoIds ==
  { [placeholder |-> FALSE, blank |-> FALSE],
    [placeholder |-> TRUE,  blank |-> FALSE],
    [placeholder |-> FALSE, blank |-> TRUE] }

\* COOKIE, by the two tests line 304 makes of it.
Cookies == [placeholder : BOOLEAN, auth_prefix : BOOLEAN]

PrizePots == {-MaxPool, 0} \cup (1..MaxPool) \cup {BigPool}

BASE_POINTS == [high |-> 10, medium |-> 3]

\* BASE_POINTS.get(severity); None is modelled as 0 (both are falsy).
BasePointsGet(severity) ==
  IF severity \in DOMAIN BASE_POINTS THEN BASE_POINTS[severity] ELSE 0

(* ------------------------------ findings ------------------------------- *)

NoCreatedBy == [isDict |-> FALSE, userId |-> ""]
CreatedBy(u) == [isDict |-> TRUE, userId |-> u]
NoDuplicateOf == [isDict |-> FALSE, id |-> ""]
DuplicateOf(i) == [isDict |-> TRUE, id |-> i]

\* A finding that is a dictionary; "" stands for a missing (falsy) value.
Finding(id, status, severity, createdBy, duplicateOf) ==
  [isDict |-> TRUE, id |-> id, status |-> status, severity |-> severity,
   createdBy |-> createdBy, duplicateOf |-> duplicateOf]

\* A 'findings' entry that is not a dictionary.
NotADict ==
  [isDict |-> FALSE, id |-> "", status |-> "", severity |-> "",
   createdBy |-> NoCreatedBy, duplicateOf |-> NoDuplicateOf]

UserIds == {"u1", "u2"}

ConfirmedFindings ==
  { Finding(i, "confirmed", s, CreatedBy(u), NoDuplicateOf) :
      i \in {"a", "b"}, s \in {"high", "medium", "low"}, u \in UserIds }

DuplicateFindings ==
  { Finding(x[1], "duplicate", x[2], CreatedBy(x[3]), x[4]) :
      x \in {"b", "c"} \X {"high", "low"} \X UserIds
            \X {NoDuplicateOf, DuplicateOf("a"), DuplicateOf("b")} }

OtherFindings ==
  { Finding("a", "rejected", "high", CreatedBy("u1"), NoDuplicateOf) }

MalformedFindings ==
  { NotADict,
    Finding("", "confirmed", "high", CreatedBy("u1"), NoDuplicateOf) }
  \cup
  { Finding("a", st, "high", cb, NoDuplicateOf) :
      st \in {"confirmed", "rejected"}, cb \in {NoCreatedBy, CreatedBy("")} }

FindingUniverse ==
  ConfirmedFindings \cup DuplicateFindings \cup OtherFindings
    \cup MalformedFindings

FindingLists == UNION { [1..n -> FindingUniverse] : n \in 0..MaxLen }

\* What fetch_findings returns: None, or the decoded JSON object.
NoneData == [kind |-> "none", findings |-> <<>>]
EmptyObject == [kind |-> "empty", findings |-> <<>>]
NoFindingsKey == [kind |-> "nokey", findings |-> <<>>]
Data(fs) == [kind |-> "ok", findings |-> fs]

Responses ==
  {NoneData, EmptyObject, NoFindingsKey} \cup { Data(fs) : fs \in FindingLists }

\* Python truthiness of api_data (line 324).
Truthy(data) == data.kind \in {"nokey", "ok"}

(* ------------------------ calculate_scaled_points ---------------------- *)

Frac(num, den) == [num |-> num, den |-> den]

\* A variant that decays by 0.9^n instead of 0.9^(n-1).
calculate_scaled_points_decay_n(base_points, n) ==
  IF n <= 0 THEN Frac(0, 1)
  ELSE IF n = 1 THEN Frac(base_points, 1)
  ELSE Frac(base_points * Pow(9, n), Pow(10, n) * n)

\* A variant that forgets the split among the n submitters.
calculate_scaled_points_no_split(base_points, n) ==
  IF n <= 0 THEN Frac(0, 1)
  ELSE IF n = 1 THEN Frac(base_points, 1)
  ELSE Frac(base_points * Pow(9, n - 1), Pow(10, n - 1))

\* base_points * 0.9^(n-1) / n as an exact fraction.
calculate_scaled_points(base_points, n) ==
  IF n <= 0 THEN Frac(0, 1)
  ELSE IF n = 1 THEN Frac(base_points, 1)
  ELSE Frac(base_points * Pow(9, n - 1), Pow(10, n - 1) * n)

\* Every value calculate_scaled_points returns for n <= MaxLen submitters is
\* a whole number of 1/PointsUnit points.
PointsUnit == Pow(10, MaxLen - 1) * Fact(MaxLen)

Units(fr) == (fr.num * PointsUnit) \div fr.den

(* ------------------- process_payouts, step 1 (102-110) ----------------- *)

RECURSIVE Step1(_, _, _)
Step1(findings, i, confirmed) ==
  IF i > Len(findings) THEN confirmed
  ELSE LET finding == findings[i] IN
    IF ~finding.isDict THEN Step1(findings, i + 1, confirmed)
    ELSE IF finding.status = "confirmed" /\ finding.id # ""
      THEN Step1(findings, i + 1, Put(confirmed, finding.id, finding))
      ELSE Step1(findings, i + 1, confirmed)

ConfirmedOriginals(findings) == Step1(findings, 1, EmptyMap)

(* ------------------- process_payouts, step 2 (119-182) ----------------- *)

NoOriginal == [id |-> "", severity |-> ""]

\* A variant that credits a duplicate of an unconfirmed target as an
\* original of its own.
OriginalToProcess_fallback(finding, confirmed) ==
  IF finding.status = "confirmed"
    THEN [id |-> finding.id, severity |-> finding.severity]
  ELSE IF finding.status = "duplicate"
    THEN IF finding.duplicateOf.isDict
            /\ finding.duplicateOf.id \in DOMAIN confirmed
           THEN LET original_severity ==
                      confirmed[finding.duplicateOf.id].severity IN
                [id |-> IF original_severity \in DOMAIN BASE_POINTS
                          THEN finding.duplicateOf.id ELSE "",
                 severity |-> original_severity]
           ELSE [id |-> finding.id, severity |-> finding.severity]
  ELSE NoOriginal

\* Lines 159-177: (original_id_to_process, original_severity).
OriginalToProcess(finding, confirmed) ==
  IF finding.status = "confirmed"
    THEN [id |-> finding.id, severity |-> finding.severity]
  ELSE IF finding.status = "duplicate"
    THEN IF finding.duplicateOf.isDict
            /\ finding.duplicateOf.id \in DOMAIN confirmed
           THEN LET original_severity ==
                      confirmed[finding.duplicateOf.id].severity IN
                [id |-> IF original_severity \in DOMAIN BASE_POINTS
                          THEN finding.duplicateOf.id ELSE "",
                 severity |-> original_severity]
           ELSE NoOriginal
  ELSE NoOriginal

\* The submission tuple (user_id, original_severity, finding_id).
Submission(user_id, severity, finding_id) ==
  [user_id |-> user_id, severity |-> severity, finding_id |-> finding_id]

\* One iteration of the loop of lines 121-182 on the state
\* (processed_finding_ids, all_valid_submissions).
GroupFinding(finding, confirmed, st) ==
  IF ~finding.isDict THEN st
  ELSE IF finding.id = "" THEN st
  ELSE IF finding.id \in st.processed_finding_ids THEN st
  ELSE
    LET st1 == [st EXCEPT !.processed_finding_ids = @ \cup {finding.id}] IN
    IF ~finding.createdBy.isDict THEN st1
    ELSE IF finding.createdBy.userId = "" THEN st1
    ELSE IF finding.severity \notin DOMAIN BASE_POINTS THEN st1
    ELSE
      LET orig == OriginalToProcess(finding, confirmed)
          sub == Submission(finding.createdBy.userId, orig.severity,
                            finding.id)
          old == IF orig.id \in DOMAIN st1.submissions
                   THEN st1.submissions[orig.id] ELSE <<>>
      IN IF orig.id # "" /\ orig.severity \in DOMAIN BASE_POINTS
           THEN [st1 EXCEPT !.submissions =
                              Put(@, orig.id, Append(old, sub))]
           ELSE st1

RECURSIVE Step2(_, _, _, _)
Step2(findings, i, confirmed, st) ==
  IF i > Len(findings) THEN st
  ELSE Step2(findings, i + 1, confirmed,
             GroupFinding(findings[i], confirmed, st))

AllValidSubmissions(findings, confirmed) ==
  Step2(findings, 1, confirmed,
        [processed_finding_ids |-> {}, submissions |-> EmptyMap]).submissions

(* ------------------- process_payouts, step 3 (196-226) ----------------- *)

UniqueUsers(submissions) ==
  { submissions[k].user_id : k \in 1..Len(submissions) }

\* A variant that counts raw submission records.
SubmitterCount_raw(submissions) == Len(submissions)

\* n = len(unique_users_for_vuln).
SubmitterCount(submissions) == Cardinality(UniqueUsers(submissions))

\* The reporting record of lines 219-226 for one vulnerability.
VulnDetails(submissions) ==
  LET base_points == BasePointsGet(submissions[1].severity)
      n == SubmitterCount(submissions)
  IN [severity |-> submissions[1].severity,
      n |-> n,
      base_points |-> base_points,
      points_per_submitter |-> Units(calculate_scaled_points(base_points, n))]

\* Vulnerabilities that pass the checks of lines 197 and 202.
Awarded(submissions_by_id) ==
  { v \in DOMAIN submissions_by_id :
      /\ Len(submissions_by_id[v]) > 0
      /\ BasePointsGet(submissions_by_id[v][1].severity) # 0 }

ProcessedVulnerabilities(submissions_by_id) ==
  [v \in Awarded(submissions_by_id) |-> VulnDetails(submissions_by_id[v])]

UserPoints(submissions_by_id) ==
  LET pv == ProcessedVulnerabilities(submissions_by_id)
      users == UNION { UniqueUsers(submissions_by_id[v]) : v \in DOMAIN pv }
      mine(u) == { v \in DOMAIN pv : u \in UniqueUsers(submissions_by_id[v]) }
      pps == [v \in DOMAIN pv |-> pv[v].points_per_submitter]
  IN [u \in users |-> SumOver(mine(u), pps)]

\* user_points of a whole run of process_payouts on a findings list.
UserPointsOf(findings) ==
  LET confirmed == ConfirmedOriginals(findings) IN
  IF DOMAIN confirmed = {} THEN EmptyMap
  ELSE UserPoints(AllValidSubmissions(findings, confirmed))

\* user_points[u] of a defaultdict(float).
PointsOf(points, u) == IF u \in DOMAIN points THEN points[u] ELSE 0

(* ----------------- process_payouts, steps 4-5 (230-273) ---------------- *)

\* A variant that rounds to whole dollars.
RoundCents_dollars(num, den) ==
  { 100 * ((2 * num + 100 * den) \div (200 * den)) }

\* f"${payout:,.2f}" read back by float(): num/den cents (den > 0) rounded to
\* the nearest cent.  The float nearest to an exact half cent lies on either
\* side of it (0.005 prints as 0.01, 0.015 prints as 0.01), so a tie rounds
\* either way.
RoundCents(num, den) ==
  LET f == (2 * num + den) \div (2 * den) IN
  IF (2 * num + den) % (2 * den) = 0 THEN {f - 1, f} ELSE {f}

\* The payouts (cents) of lines 253-261, one per user holding points.
Payouts(points, prize_pot) ==
  LET total == SumOver(DOMAIN points, points) IN
  { pay \in [DOMAIN points ->
               UNION { RoundCents(points[u] * prize_pot, total) :
                         u \in DOMAIN points }] :
      \A u \in DOMAIN points :
         pay[u] \in RoundCents(points[u] * prize_pot, total) }

\* payout_data after the sort of line 268: the user rows, payout descending
\* (rows of equal payout keep the dictionary's order, which is arbitrary).
PayoutRows(points, pay) ==
  LET k == Cardinality(DOMAIN pay)
      orders == { s \in [1..k -> DOMAIN pay] :
                    /\ \A i, j \in 1..k : i # j => s[i] # s[j]
                    /\ \A i, j \in 1..k : i < j => pay[s[i]] >= pay[s[j]] }
  IN { [i \in 1..k |-> [user_id |-> s[i], points |-> points[s[i]],
                        payout |-> pay[s[i]]]] : s \in orders }

\* total_payout_calculated (line 271).
RECURSIVE TotalPayout(_, _)
TotalPayout(rows, i) ==
  IF i > Len(rows) THEN 0 ELSE rows[i].payout + TotalPayout(rows, i + 1)

\* math.isclose(a, b, rel_tol=1e-4), line 279.
IsClose(a, b) == 10000 * Abs(a - b) <= Max(Abs(a), Abs(b))

(* ------------------------------- main ---------------------------------- *)

\* A variant that does not test the cookie.
ValidConfig_repo_only(repo_id, cookie) ==
  ~(repo_id.placeholder \/ repo_id.blank)

\* valid_config after lines 298-307.
ValidConfig(repo_id, cookie) ==
  /\ ~(repo_id.placeholder \/ repo_id.blank)
  /\ ~(cookie.placeholder \/ ~cookie.auth_prefix)

NoCall == [base_points |-> 0, n |-> 0, result |-> Frac(0, 1), returned |-> FALSE]

NothingProcessed ==
  /\ confirmed_originals = EmptyMap
  /\ all_valid_submissions = EmptyMap
  /\ user_points = EmptyMap
  /\ processed_vulnerabilities = EmptyMap
  /\ total_points_awarded = 0
  /\ payout_data = <<>>
  /\ total_payout_calculated = 0

Init ==
  /\ REPO_ID \in RepoIds
  /\ COOKIE \in Cookies
  /\ PRIZE_POT \in PrizePots
  /\ pc = "start"
  /\ valid_config = TRUE
  /\ api_data = NoneData
  /\ calls = <<>>
  /\ NothingProcessed
  /\ scaled_call = NoCall

\* Lines 298-313 and, for an invalid configuration, 329-331.
Validate ==
  /\ pc = "start"
  /\ valid_config' = ValidConfig(REPO_ID, COOKIE)
  /\ pc' = IF valid_config' THEN "fetch" ELSE "done"
  /\ UNCHANGED <<REPO_ID, COOKIE, PRIZE_POT, api_data, calls,
                 confirmed_originals, all_valid_submissions, user_points,
                 processed_vulnerabilities, total_points_awarded, payout_data,
                 total_payout_calculated, scaled_call>>

\* Line 321, and lines 327-331 when the data is None or empty.
Fetch ==
  /\ pc = "fetch"
  /\ calls' = Append(calls, "fetch_findings")
  /\ \E data \in Responses : api_data' = data
  /\ pc' = IF Truthy(api_data') THEN "process" ELSE "done"
  /\ UNCHANGED <<REPO_ID, COOKIE, PRIZE_POT, valid_config,
                 confirmed_originals, all_valid_submissions, user_points,
                 processed_vulnerabilities, total_points_awarded, payout_data,
                 total_payout_calculated, scaled_call>>

\* What a call of process_payouts leaves behind when it returns at once.
NoResult ==
  [confirmed_originals |-> EmptyMap, all_valid_submissions |-> EmptyMap,
   user_points |-> EmptyMap, processed_vulnerabilities |-> EmptyMap,
   total_points_awarded |-> 0, payout_data |-> <<>>,
   total_payout_calculated |-> 0]

\* process_payouts(data, prize_pot), lines 88-290: the outcomes of the call
\* (several when a payout is an exact half cent or two payouts are equal).
process_payouts(data, prize_pot) ==
  IF data.kind # "ok" THEN {NoResult}
  ELSE
    LET confirmed == ConfirmedOriginals(data.findings)
        subs == AllValidSubmissions(data.findings, confirmed)
        points == UserPoints(subs)
        total == SumOver(DOMAIN points, points)
        grouped == [NoResult EXCEPT !.confirmed_originals = confirmed,
                                    !.all_valid_submissions = subs]
        awarded == [grouped EXCEPT
                      !.user_points = points,
                      !.processed_vulnerabilities =
                         ProcessedVulnerabilities(subs),
                      !.total_points_awarded = total]
    IN
    IF DOMAIN confirmed = {}
      THEN {[NoResult EXCEPT !.confirmed_originals = confirmed]}
    ELSE IF DOMAIN subs = {} THEN {grouped}
    ELSE IF total > 0
      THEN { [awarded EXCEPT !.payout_data = rows,
                             !.total_payout_calculated = TotalPayout(rows, 1)] :
               rows \in UNION { PayoutRows(points, pay) :
                                  pay \in Payouts(points, prize_pot) } }
    ELSE {awarded}

\* Line 325: process_payouts(api_data, PRIZE_POT), then line 331.
Process ==
  /\ pc = "process"
  /\ calls' = Append(calls, "process_payouts")
  /\ pc' = "done"
  /\ \E r \in process_payouts(api_data, PRIZE_POT) :
       /\ confirmed_originals' = r.confirmed_originals
       /\ all_valid_submissions' = r.all_valid_submissions
       /\ user_points' = r.user_points
       /\ processed_vulnerabilities' = r.processed_vulnerabilities
       /\ total_points_awarded' = r.total_points_awarded
       /\ payout_data' = r.payout_data
       /\ total_payout_calculated' = r.total_payout_calculated
  /\ UNCHANGED <<REPO_ID, COOKIE, PRIZE_POT, valid_config, api_data,
                 scaled_call>>

Next == Validate \/ Fetch \/ Process

Spec == Init /\ [][Next]_vars

(* -------------- calculate_scaled_points exercised on its own ----------- *)

InitScaled ==
  /\ REPO_ID = [placeholder |-> FALSE, blank |-> FALSE]
  /\ COOKIE = [placeholder |-> FALSE, auth_prefix |-> TRUE]
  /\ PRIZE_POT = BigPool
  /\ pc = "scaled"
  /\ valid_config = TRUE
  /\ api_data = NoneData
  /\ calls = <<>>
  /\ NothingProcessed
  /\ \E b \in 1..MaxBase, n \in (-1)..MaxN :
       scaled_call = [base_points |-> b, n |-> n, result |-> Frac(0, 1),
                      returned |-> FALSE]

CallScaled ==
  /\ pc = "scaled"
  /\ ~scaled_call.returned
  /\ scaled_call' =
       [scaled_call EXCEPT
          !.result = calculate_scaled_points(scaled_call.base_points,
                                             scaled_call.n),
          !.returned = TRUE]
  /\ UNCHANGED <<REPO_ID, COOKIE, PRIZE_POT, pc, valid_config, api_data, calls,
                 confirmed_originals, all_valid_submissions, user_points,
                 processed_vulnerabilities, total_points_awarded, payout_data,
                 total_payout_calculated>>

NextScaled == CallScaled

SpecScaled == InitScaled /\ [][NextScaled]_vars

(* ------------------------------ properties ----------------------------- *)

\* process_payouts has run on a response that carries a 'findings' list.
Processed == pc = "done" /\ Len(calls) = 2 /\ api_data.kind = "ok"

\* process_payouts reached the payout step with total_points_awarded > 0.
Paid == Processed /\ total_points_awarded > 0

HasId(f) == f.isDict /\ f.id # ""

HasUser(f) == f.isDict /\ f.createdBy.isDict /\ f.createdBy.userId # ""

\* The finding ids of the list are pairwise distinct.
DistinctIds(findings) ==
  \A i, j \in 1..Len(findings) :
     (i # j /\ HasId(findings[i]) /\ HasId(findings[j]))
        => findings[i].id # findings[j].id

\* The duplicate's target is a confirmed finding of payable severity.
Resolves(f) ==
  /\ f.duplicateOf.isDict
  /\ f.duplicateOf.id \in DOMAIN confirmed_originals
  /\ confirmed_originals[f.duplicateOf.id].severity \in DOMAIN BASE_POINTS

\* The grouper skips the record as malformed.
Malformed(f) == ~HasId(f) \/ ~HasUser(f)

\* The vulnerabilities under which user u has a valid submission.
VulnsOf(u) ==
  { v \in DOMAIN all_valid_submissions :
      u \in UniqueUsers(all_valid_submissions[v]) }

\* scaledPoints(B_V, n_V) of vulnerability v, n_V counting distinct userIds.
ScaledFor(v) ==
  LET subs == all_valid_submissions[v] IN
  Units(calculate_scaled_points(BasePointsGet(subs[1].severity),
                                Cardinality(UniqueUsers(subs))))

\* C1: every well-formed duplicate with an unseen id whose target is a
\* confirmed finding of payable severity yields a valid submission for that
\* target carrying the target's severity, whatever its own severity is.
C1_DuplicateCreditedWhateverItsSeverity ==
  Processed =>
    \A i \in 1..Len(api_data.findings) :
      LET f == api_data.findings[i] IN
      ( /\ HasId(f) /\ HasUser(f)
        /\ f.status = "duplicate"
        /\ \A j \in 1..(i - 1) :
              ~(HasId(api_data.findings[j]) /\ api_data.findings[j].id = f.id)
        /\ Resolves(f) )
      => /\ f.duplicateOf.id \in DOMAIN all_valid_submissions
         /\ \E k \in 1..Len(all_valid_submissions[f.duplicateOf.id]) :
              all_valid_submissions[f.duplicateOf.id][k] =
                Submission(f.createdBy.userId,
                           confirmed_originals[f.duplicateOf.id].severity,
                           f.id)

\* C2: a user's point total is the sum, over the vulnerabilities the user has
\* a valid submission for, of scaledPoints(B_V, n_V) counted once each, with
\* n_V the number of distinct userIds among V's valid submissions.
C2_CreditedOncePerVulnerability ==
  Processed =>
    \A u \in UserIds :
      PointsOf(user_points, u) =
        SumOver(VulnsOf(u), [v \in VulnsOf(u) |-> ScaledFor(v)])

\* A user holds two valid submissions for one vulnerability and was paid
\* points.
C2_Witness ==
  /\ Processed
  /\ \E v \in DOMAIN all_valid_submissions :
       \E k1, k2 \in 1..Len(all_valid_submissions[v]) :
          /\ k1 # k2
          /\ all_valid_submissions[v][k1].user_id =
               all_valid_submissions[v][k2].user_id
          /\ all_valid_submissions[v][k1].finding_id #
               all_valid_submissions[v][k2].finding_id
          /\ PointsOf(user_points, all_valid_submissions[v][k1].user_id) > 0

\* C3: with pairwise distinct finding ids, a duplicate whose duplicateOf is
\* missing, is not the id of a confirmed finding, or is a confirmed finding of
\* non-payable severity adds no submission, and every point total is what it
\* is on the list without that record.
C3_UnresolvedDuplicateEarnsNothing ==
  (Processed /\ DistinctIds(api_data.findings)) =>
    \A i \in 1..Len(api_data.findings) :
      LET f == api_data.findings[i] IN
      (f.isDict /\ f.status = "duplicate" /\ ~Resolves(f)) =>
        /\ \A v \in DOMAIN all_valid_submissions :
             \A k \in 1..Len(all_valid_submissions[v]) :
                all_valid_submissions[v][k].finding_id # f.id
        /\ \A u \in UserIds :
             PointsOf(user_points, u) =
               PointsOf(UserPointsOf(RemoveAt(api_data.findings, i)), u)

\* An unresolved duplicate sits in a list whose ids are distinct, and its
\* submitter earned points from another record.
C3_Witness ==
  /\ Processed
  /\ DistinctIds(api_data.findings)
  /\ \E i \in 1..Len(api_data.findings) :
       LET f == api_data.findings[i] IN
       /\ HasId(f) /\ HasUser(f)
       /\ f.status = "duplicate"
       /\ f.severity \in DOMAIN BASE_POINTS
       /\ ~Resolves(f)
       /\ PointsOf(user_points, f.createdBy.userId) > 0

\* C4 as stated: with total points > 0 and a positive pool the total of the
\* payouts as rounded to cents is within relative tolerance 1e-4 of the pool.
C4_TotalMatchesPool ==
  (Paid /\ PRIZE_POT > 0) => IsClose(total_payout_calculated, PRIZE_POT)

\* C4 amended: the total of the rounded payouts differs from the pool by at
\* most half a cent per paid user, and is within relative tolerance 1e-4 of
\* the pool when the pool is at least 10000 cents per paid user.
C4_TotalWithinHalfCentPerUser ==
  (Paid /\ PRIZE_POT > 0) =>
    /\ 2 * Abs(total_payout_calculated - PRIZE_POT) <= Len(payout_data)
    /\ PRIZE_POT >= 10000 * Len(payout_data)
         => IsClose(total_payout_calculated, PRIZE_POT)

\* Two users were paid from a positive pool and rounding moved the total.
C4_Witness ==
  /\ Paid
  /\ PRIZE_POT > 0
  /\ Len(payout_data) = 2
  /\ total_payout_calculated # PRIZE_POT

\* C5: with a prize pool of zero or less every computed payout is 0.
C5_NonPositivePoolPaysZero ==
  (Paid /\ PRIZE_POT <= 0) =>
    \A k \in 1..Len(payout_data) : payout_data[k].payout = 0

\* C6: for B > 0 and n >= 1 the scaled points equal B at n = 1 and
\* B * 0.9^(n-1) / n beyond, are positive, and shrink from n to n + 1.
C6_ScaledPointsShape ==
  (scaled_call.returned /\ scaled_call.base_points > 0 /\ scaled_call.n >= 1) =>
    LET b == scaled_call.base_points
        n == scaled_call.n
        r == scaled_call.result
        next == calculate_scaled_points(b, n + 1)
    IN /\ r.den > 0
       /\ r.num > 0
       /\ n = 1 => r.num = b * r.den
       /\ n > 1 => r.num * (Pow(10, n - 1) * n) = (b * Pow(9, n - 1)) * r.den
       /\ next.den > 0
       /\ next.num * r.den < r.num * next.den

\* calculate_scaled_points returned for several submitters.
C6_Witness ==
  /\ scaled_call.returned
  /\ scaled_call.base_points = 10
  /\ scaled_call.n > 1
  /\ scaled_call.result.num * 20 = 9 * 10 * scaled_call.result.den

C8_MalformedRecordIsolated ==
  Processed =>
    \A i \in 1..Len(api_data.findings) :
      LET f == api_data.findings[i] IN
      (Malformed(f) /\ ~(f.isDict /\ f.status = "confirmed")) =>
        \A u \in UserIds :
           PointsOf(user_points, u) =
             PointsOf(UserPointsOf(RemoveAt(api_data.findings, i)), u)

\* C9: the base value of an awarded vulnerability is BASE_POINTS of the
\* severity of the finding the confirmed map holds for it, and every
\* submission grouped under it carries that severity.
C9_BaseFromConfirmedSeverity ==
  Processed =>
    \A v \in DOMAIN processed_vulnerabilities :
      /\ v \in DOMAIN confirmed_originals
      /\ processed_vulnerabilities[v].base_points =
           BasePointsGet(confirmed_originals[v].severity)
      /\ \A k \in 1..Len(all_valid_submissions[v]) :
           all_valid_submissions[v][k].severity =
             confirmed_originals[v].severity

\* The configuration passes the tests of lines 299 and 304.
ConfigOK ==
  /\ ~REPO_ID.placeholder /\ ~REPO_ID.blank
  /\ ~COOKIE.placeholder /\ COOKIE.auth_prefix

\* C10: fetch_findings is called only with a valid configuration,
\* process_payouts only right after a fetch that returned non-empty data, a
\* run that is not finished can always take its next step (validation, the
\* fetch, a call of process_payouts that returns), and a valid configuration
\* reaches the fetch whatever the prize pot is.
C10_ConfigErrorAbortsBeforeFetch ==
  /\ \A k \in 1..Len(calls) : calls[k] = "fetch_findings" => ConfigOK
  /\ \A k \in 1..Len(calls) :
       calls[k] = "process_payouts" =>
         k > 1 /\ calls[k - 1] = "fetch_findings" /\ Truthy(api_data)
  /\ ~ConfigOK => (pc \in {"start", "done"} /\ calls = <<>>)
  /\ pc \in {"start", "fetch", "process", "done"}
  /\ pc = "start" => ENABLED Validate
  /\ pc = "fetch" => (ConfigOK /\ ENABLED Fetch)
  /\ pc = "process" => process_payouts(api_data, PRIZE_POT) # {}
  /\ (ConfigOK /\ pc \in {"process", "done"}) => calls[1] = "fetch_findings"

\* A run with a non-positive prize pot fetched and processed its data.
C10_Witness ==
  /\ PRIZE_POT <= 0
  /\ pc = "done"
  /\ calls = <<"fetch_findings", "process_payouts">>

====
